---- MODULE Spec2Model ----
(***************************************************************************)
(* Grading and positional error classification of the needle-in-a-haystack *)
(* evaluator: the LCS aligner, the edit distance, and the per-record       *)
(* misorder / hallucination / missing / position-accuracy analyses, the    *)
(* accuracy summary, the result tables and the web application.            *)
(*                                                                         *)
(* Eight specifications share the module:                                  *)
(*   SpecLCS    the LCS routines run on a pair of sequences                *)
(*   SpecEdit   calculate_edit_distance run on a pair of sequences         *)
(*   SpecGrade  grade_answers run on a pair of answer sets                 *)
(*   SpecRecord the analysis loops run on a table holding one record       *)
(*   SpecBatch  the analysis loops run on a table of several records       *)
(*   SpecRuns   the position analysis run repeatedly on one result table   *)
(*   SpecSummary analyze_table of analyze_summary run on a table           *)
(*   SpecApp    the handlers and background tasks of app.py                *)
(***************************************************************************)
EXTENDS Integers, Sequences, FiniteSets, TLC

VARIABLES
    \* longest_common_subsequence / longest_common_subsequence_with_indices
    seq1, seq2, dp, i, j, indices, lcs, pcLcs,
    \* calculate_edit_distance
    ed_seq1, ed_seq2, allow_transposition, edit_distance, pcEdit,
    \* grade_answers: its two arguments, its two value sequences, its return
    student_answers, standard_answers, standard_sequence, student_sequence,
    grade_result, pcGrade,
    \* the analysis functions over the rows fetched from one table
    records, phase,
    anchors, correct_model_keys,
    misorder_frequency, total_misorder,
    hallucination_frequency, total_halluc,
    missing_frequency, total_missing,
    position_frequency, total_records,
    \* the result table position_accuracy_<table> and the runs that wrote it
    result_table, runs,
    \* analyze_summary.analyze_table: its two lists and its return
    accuracies, elapsed_times, summary,
    \* app.py: the two globals, the background tasks, the lines that have
    \* arrived (in all, and since the last clear), the last /api/logs reply
    is_running, process_logs, tasks, arrived, since_clear, response

lcsVars  == <<seq1, seq2, dp, i, j, indices, lcs, pcLcs>>
editVars == <<ed_seq1, ed_seq2, allow_transposition, edit_distance, pcEdit>>
recVars  == <<records, phase, anchors, correct_model_keys,
              misorder_frequency, total_misorder,
              hallucination_frequency, total_halluc,
              missing_frequency, total_missing,
              position_frequency, total_records>>
gradeVars == <<student_answers, standard_answers, standard_sequence,
               student_sequence, grade_result, pcGrade>>
runVars  == <<result_table, runs>>
sumVars  == <<accuracies, elapsed_times, summary>>
appVars  == <<is_running, process_logs, tasks, arrived, since_clear, response>>
vars     == <<lcsVars, editVars, gradeVars, recVars, runVars, sumVars, appVars>>

(***************************************************************************)
(* Bounds of the model.                                                    *)
(***************************************************************************)
\* longest sequence handed to the LCS and edit-distance specifications
MaxLen == 3

\* the values a sequence element / an answer can take
Elems == {"A", "B", "C"}

Max(a, b) == IF a > b THEN a ELSE b
Min(a, b) == IF a < b THEN a ELSE b

SeqsUpTo(S, n) == UNION {[1..k -> S] : k \in 0..n}

RECURSIVE Reverse(_)
Reverse(s) == IF s = <<>> THEN <<>> ELSE Append(Reverse(Tail(s)), Head(s))

(***************************************************************************)
(* The LCS dynamic programme.  dp is the (m+1) x (n+1) table, rows and     *)
(* columns numbered from 0 as in the source; sequences are 1-based here,   *)
(* so the source's seq1[i-1] is seq1[i].                                   *)
(***************************************************************************)
\* dp = [[0] * (n + 1) for _ in range(m + 1)]
ZeroTable(m, n) == [r \in 0..m |-> [c \in 0..n |-> 0]]

\* the two nested fill loops, cell by cell in row-major order
RECURSIVE LcsFill(_, _, _, _, _)
LcsFill(s1, s2, t, r, c) ==
    IF r > Len(s1) THEN t
    ELSE IF c > Len(s2) THEN LcsFill(s1, s2, t, r + 1, 1)
    ELSE LET v == IF s1[r] = s2[c]
                  THEN t[r - 1][c - 1] + 1
                  ELSE Max(t[r - 1][c], t[r][c - 1])
         IN  LcsFill(s1, s2, [t EXCEPT ![r][c] = v], r, c + 1)

LcsTable(s1, s2) == LcsFill(s1, s2, ZeroTable(Len(s1), Len(s2)), 1, 1)

\* One iteration of the backtrace loop `while i > 0 and j > 0`.  st.idx is
\* the list of seq1 indices (0-based, as the source records them) in the
\* order they are appended, that is from the back.
\* First two variants of it: a tie resolved toward the row index,
BacktraceStepPreferRow(s1, s2, t, st) ==
    IF s1[st.i] = s2[st.j]
    THEN [i |-> st.i - 1, j |-> st.j - 1, idx |-> Append(st.idx, st.i - 1)]
    ELSE IF t[st.i - 1][st.j] >= t[st.i][st.j - 1]
    THEN [st EXCEPT !.i = st.i - 1]
    ELSE [st EXCEPT !.j = st.j - 1]

\* the comparison turned round: the backtrace leaves the longest path
BacktraceStepSmaller(s1, s2, t, st) ==
    IF s1[st.i] = s2[st.j]
    THEN [i |-> st.i - 1, j |-> st.j - 1, idx |-> Append(st.idx, st.i - 1)]
    ELSE IF t[st.i - 1][st.j] < t[st.i][st.j - 1]
    THEN [st EXCEPT !.i = st.i - 1]
    ELSE [st EXCEPT !.j = st.j - 1]

BacktraceStep(s1, s2, t, st) ==
    IF s1[st.i] = s2[st.j]
    THEN [i |-> st.i - 1, j |-> st.j - 1, idx |-> Append(st.idx, st.i - 1)]
    ELSE IF t[st.i - 1][st.j] > t[st.i][st.j - 1]
    THEN [st EXCEPT !.i = st.i - 1]
    ELSE [st EXCEPT !.j = st.j - 1]

RECURSIVE Backtrace(_, _, _, _)
Backtrace(s1, s2, t, st) ==
    IF st.i > 0 /\ st.j > 0
    THEN Backtrace(s1, s2, t, BacktraceStep(s1, s2, t, st))
    ELSE st.idx

\* longest_common_subsequence_with_indices(seq1, seq2): indices into seq1
longest_common_subsequence_with_indices(s1, s2) ==
    Reverse(Backtrace(s1, s2, LcsTable(s1, s2),
                      [i |-> Len(s1), j |-> Len(s2), idx |-> <<>>]))

\* longest_common_subsequence(seq1, seq2): the matched elements of seq1
longest_common_subsequence(s1, s2) ==
    LET ix == longest_common_subsequence_with_indices(s1, s2)
    IN  [k \in 1..Len(ix) |-> s1[ix[k] + 1]]

(***************************************************************************)
(* calculate_edit_distance.  The adjacent-transposition step of the source *)
(* is enclosed in a string literal (grading_utils.py lines 35-37), so it   *)
(* is never executed: allow_transposition is accepted and not read.        *)
(***************************************************************************)
\* the default of the allow_transposition parameter
DefaultAllowTransposition == TRUE

Min3(a, b, c) == Min(a, Min(b, c))

\* dp[i][0] = i and dp[0][j] = j
EditInitTable(m, n) ==
    [r \in 0..m |-> [c \in 0..n |-> IF c = 0 THEN r ELSE IF r = 0 THEN c ELSE 0]]

\* the cell as the source would fill it if the transposition step were code
EditCellDamerau(s1, s2, t, r, c, allow) ==
    LET cost == IF s1[r] = s2[c] THEN 0 ELSE 1
        base == Min3(t[r - 1][c] + 1, t[r][c - 1] + 1, t[r - 1][c - 1] + cost)
    IN  IF allow /\ r > 1 /\ c > 1 /\ s1[r] = s2[c - 1] /\ s1[r - 1] = s2[c]
        THEN Min(base, t[r - 2][c - 2] + 1)
        ELSE base

\* the cell when equal elements are charged like a substitution
EditCellNoMatch(s1, s2, t, r, c, allow) ==
    Min3(t[r - 1][c] + 1, t[r][c - 1] + 1, t[r - 1][c - 1] + 1)

\* the cell when a deletion is charged twice the insertion
EditCellCostlyDelete(s1, s2, t, r, c, allow) ==
    LET cost == IF s1[r] = s2[c] THEN 0 ELSE 1
    IN  Min3(t[r - 1][c] + 2, t[r][c - 1] + 1, t[r - 1][c - 1] + cost)

\* the body of the inner loop: the three-way minimum
EditCell(s1, s2, t, r, c, allow) ==
    LET cost == IF s1[r] = s2[c] THEN 0 ELSE 1
    IN  Min3(t[r - 1][c] + 1, t[r][c - 1] + 1, t[r - 1][c - 1] + cost)

RECURSIVE EditFill(_, _, _, _, _, _)
EditFill(s1, s2, t, r, c, allow) ==
    IF r > Len(s1) THEN t
    ELSE IF c > Len(s2) THEN EditFill(s1, s2, t, r + 1, 1, allow)
    ELSE EditFill(s1, s2, [t EXCEPT ![r][c] = EditCell(s1, s2, t, r, c, allow)],
                  r, c + 1, allow)

calculate_edit_distance(s1, s2, allow) ==
    EditFill(s1, s2, EditInitTable(Len(s1), Len(s2)), 1, 1, allow)[Len(s1)][Len(s2)]

(***************************************************************************)
(* Values the variables of a specification hold while another one runs.    *)
(***************************************************************************)
LcsIdle ==
    /\ seq1 = <<>> /\ seq2 = <<>> /\ dp = ZeroTable(0, 0)
    /\ i = 0 /\ j = 0 /\ indices = <<>> /\ lcs = <<>> /\ pcLcs = "idle"

EditIdle ==
    /\ ed_seq1 = <<>> /\ ed_seq2 = <<>> /\ allow_transposition = TRUE
    /\ edit_distance = -1 /\ pcEdit = "idle"

EmptyDict == [k \in {} |-> 0]

\* no call of grade_answers has returned
NoResult ==
    [raised |-> FALSE, correct_count |-> 0, answered_count |-> 0, total |-> 0,
     accuracy |-> [num |-> 0, den |-> 1], edit_distance |-> 0,
     missing_count |-> 0, extra_count |-> 0, wrong_count |-> 0]

GradeIdle ==
    /\ student_answers = [kind |-> "null", obj |-> EmptyDict]
    /\ standard_answers = [kind |-> "null", obj |-> EmptyDict]
    /\ standard_sequence = <<>> /\ student_sequence = <<>>
    /\ grade_result = NoResult /\ pcGrade = "idle"

RecIdle ==
    /\ records = <<>> /\ phase = "idle"
    /\ anchors = <<>> /\ correct_model_keys = <<>>
    /\ misorder_frequency = EmptyDict /\ total_misorder = 0
    /\ hallucination_frequency = EmptyDict /\ total_halluc = 0
    /\ missing_frequency = EmptyDict /\ total_missing = 0
    /\ position_frequency = EmptyDict /\ total_records = 0

RunIdle == result_table = EmptyDict /\ runs = 0

\* analyze_table of analyze_summary has not returned
NoSummary ==
    [record_count |-> 0, avg_accuracy |-> [num |-> 0, den |-> 1],
     median_accuracy |-> [num |-> 0, den |-> 1],
     min_accuracy |-> [num |-> 0, den |-> 1],
     max_accuracy |-> [num |-> 0, den |-> 1],
     avg_elapsed_time |-> [num |-> 0, den |-> 1]]

SumIdle == accuracies = <<>> /\ elapsed_times = <<>> /\ summary = NoSummary

\* no /api/logs request has been answered
NoResponse == [logs |-> <<>>, is_running |-> FALSE]

AppIdle ==
    /\ is_running = FALSE /\ process_logs = <<>> /\ tasks = <<>>
    /\ arrived = 0 /\ since_clear = 0 /\ response = NoResponse

(***************************************************************************)
(* SpecLCS: the LCS routine, one backtrace iteration per step.  indices is *)
(* the list of longest_common_subsequence_with_indices, lcs the list of    *)
(* longest_common_subsequence; both routines run the same loops.           *)
(***************************************************************************)
InitLCS ==
    /\ seq1 \in SeqsUpTo(Elems, MaxLen)
    /\ seq2 \in SeqsUpTo(Elems, MaxLen)
    /\ dp = ZeroTable(Len(seq1), Len(seq2))
    /\ i = 0 /\ j = 0 /\ indices = <<>> /\ lcs = <<>>
    /\ pcLcs = "fill"
    /\ EditIdle /\ GradeIdle /\ RecIdle /\ RunIdle /\ SumIdle /\ AppIdle

\* lines 20-35: build the table, then i, j = m, n
LcsFillTable ==
    /\ pcLcs = "fill"
    /\ dp' = LcsTable(seq1, seq2)
    /\ i' = Len(seq1) /\ j' = Len(seq2)
    /\ pcLcs' = "backtrace"
    /\ UNCHANGED <<seq1, seq2, indices, lcs, editVars, gradeVars, recVars, runVars, sumVars, appVars>>

\* lines 36-44: one iteration of the while loop
LcsBacktrace ==
    /\ pcLcs = "backtrace"
    /\ i > 0 /\ j > 0
    /\ LET st == BacktraceStep(seq1, seq2, dp, [i |-> i, j |-> j, idx |-> indices])
       IN  /\ i' = st.i /\ j' = st.j /\ indices' = st.idx
           /\ lcs' = IF Len(st.idx) > Len(indices)
                     THEN Append(lcs, seq1[i]) ELSE lcs
    /\ UNCHANGED <<seq1, seq2, dp, pcLcs, editVars, gradeVars, recVars, runVars, sumVars, appVars>>

\* lines 46-48: reverse and return
LcsReturn ==
    /\ pcLcs = "backtrace"
    /\ ~(i > 0 /\ j > 0)
    /\ indices' = Reverse(indices)
    /\ lcs' = Reverse(lcs)
    /\ pcLcs' = "done"
    /\ UNCHANGED <<seq1, seq2, dp, i, j, editVars, gradeVars, recVars, runVars, sumVars, appVars>>

NextLCS == LcsFillTable \/ LcsBacktrace \/ LcsReturn

SpecLCS == InitLCS /\ [][NextLCS]_vars

(***************************************************************************)
(* SpecEdit: one call of calculate_edit_distance.                          *)
(***************************************************************************)
InitEdit ==
    /\ ed_seq1 \in SeqsUpTo(Elems, MaxLen)
    /\ ed_seq2 \in SeqsUpTo(Elems, MaxLen)
    /\ allow_transposition \in BOOLEAN
    /\ edit_distance = -1
    /\ pcEdit = "call"
    /\ LcsIdle /\ GradeIdle /\ RecIdle /\ RunIdle /\ SumIdle /\ AppIdle

EditDistanceCall ==
    /\ pcEdit = "call"
    /\ edit_distance' = calculate_edit_distance(ed_seq1, ed_seq2, allow_transposition)
    /\ pcEdit' = "done"
    /\ UNCHANGED <<ed_seq1, ed_seq2, allow_transposition, lcsVars, gradeVars, recVars, runVars, sumVars, appVars>>

NextEdit == EditDistanceCall

SpecEdit == InitEdit /\ [][NextEdit]_vars

(***************************************************************************)
(* JSON keys.  A key is a string, modelled as the sequence of its          *)
(* characters; the characters of the model are the decimal digits and one  *)
(* letter, so int(k) succeeds exactly on the non-empty digit strings       *)
(* (there is no sign, blank or underscore to accept).                      *)
(***************************************************************************)
DigitChars == <<"0", "1", "2", "3", "4", "5", "6", "7", "8", "9">>
\* the characters in code-point order
Alphabet == DigitChars \o <<"a">>

IsDigitChar(c) == \E d \in 1..Len(DigitChars) : DigitChars[d] = c
DigitVal(c) == (CHOOSE d \in 1..Len(DigitChars) : DigitChars[d] = c) - 1
CharCode(c) == CHOOSE d \in 1..Len(Alphabet) : Alphabet[d] = c

\* k.isdigit()
isdigit(k) == Len(k) > 0 /\ \A q \in 1..Len(k) : IsDigitChar(k[q])

\* int(k) returns (otherwise it raises ValueError)
IntParses(k) == Len(k) > 0 /\ \A q \in 1..Len(k) : IsDigitChar(k[q])

\* int(k), leading zeros ignored
RECURSIVE int(_)
int(k) ==
    IF Len(k) = 0 THEN 0
    ELSE int(SubSeq(k, 1, Len(k) - 1)) * 10 + DigitVal(k[Len(k)])

\* str(n) for n >= 0: the decimal numeral without leading zeros
RECURSIVE str(_)
str(n) ==
    IF n < 10 THEN <<DigitChars[n + 1]>>
    ELSE Append(str(n \div 10), DigitChars[(n % 10) + 1])

\* a < b for strings: by code points, a proper prefix first
RECURSIVE StrLess(_, _)
StrLess(a, b) ==
    IF b = <<>> THEN FALSE
    ELSE IF a = <<>> THEN TRUE
    ELSE IF Head(a) = Head(b) THEN StrLess(Tail(a), Tail(b))
    ELSE CharCode(Head(a)) < CharCode(Head(b))

\* sorted([int(k) for k in d.keys()]): ascending, equal numbers kept
RECURSIVE SortedKeyInts(_)
SortedKeyInts(K) ==
    IF K = {} THEN <<>>
    ELSE LET k == CHOOSE x \in K : \A o \in K : int(x) <= int(o)
         IN  <<int(k)>> \o SortedKeyInts(K \ {k})

\* sorted(d.keys()): the key strings in lexicographic order
RECURSIVE SortedKeyStrings(_)
SortedKeyStrings(K) ==
    IF K = {} THEN <<>>
    ELSE LET k == CHOOSE x \in K : \A o \in K : x = o \/ StrLess(x, o)
         IN  <<k>> \o SortedKeyStrings(K \ {k})

(***************************************************************************)
(* JSON documents and rows.  A column holds a text; json.loads either      *)
(* raises (kind "malformed") or returns an object (a dict from key strings *)
(* to values) or another JSON value (kind "null").                         *)
(***************************************************************************)
Obj(d)    == [kind |-> "object", obj |-> d]
Malformed == [kind |-> "malformed", obj |-> EmptyDict]
NullDoc   == [kind |-> "null", obj |-> EmptyDict]

Row(s, r) == [standard_json |-> s, model_response_json |-> r]

\* d[k] = d.get(k, 0) + 1
DictInc(d, k) ==
    IF k \in DOMAIN d THEN [d EXCEPT ![k] = @ + 1]
    ELSE [x \in DOMAIN d \cup {k} |-> IF x = k THEN 1 ELSE d[x]]

RECURSIVE DictIncAll(_, _)
DictIncAll(d, ks) ==
    IF ks = <<>> THEN d ELSE DictIncAll(DictInc(d, Head(ks)), Tail(ks))

SeqToSet(q) == {q[k] : k \in 1..Len(q)}

\* [x for x in q if Test(x)]
RECURSIVE Filter(_, _)
Filter(q, T) ==
    IF q = <<>> THEN <<>>
    ELSE IF Head(q) \in T THEN <<Head(q)>> \o Filter(Tail(q), T)
    ELSE Filter(Tail(q), T)

\* json.loads raises on one of the two columns
LoadsRaises(row) ==
    \/ row.standard_json.kind = "malformed"
    \/ row.model_response_json.kind = "malformed"

\* [int(k) for k in doc.keys()] raises: no .keys() (AttributeError) or a key
\* int() rejects (ValueError)
KeyIntsRaise(doc) ==
    \/ doc.kind # "object"
    \/ \E k \in DOMAIN doc.obj : ~IntParses(k)

\* the value-correct test of the loops over the model keys:
\* k_str in standard_answers and model_answers[k_str] == standard_answers[k_str]
\* raises KeyError when str(k) is a standard key and no model key
CorrectLookupRaises(S, R) ==
    \E k \in DOMAIN R : str(int(k)) \in DOMAIN S /\ str(int(k)) \notin DOMAIN R

ValueCorrect(S, R, n) ==
    str(n) \in DOMAIN S /\ R[str(n)] = S[str(n)]

\* the keys that pass the test, listed from the largest down
CorrectModelKeysDescending(S, R) ==
    LET all_model_keys == SortedKeyInts(DOMAIN R)
    IN  Reverse(Filter(all_model_keys,
                       {n \in SeqToSet(all_model_keys) : ValueCorrect(S, R, n)}))

\* correct_model_keys: the sorted model keys that pass the test
CorrectModelKeys(S, R) ==
    LET all_model_keys == SortedKeyInts(DOMAIN R)
    IN  Filter(all_model_keys, {n \in SeqToSet(all_model_keys) : ValueCorrect(S, R, n)})

(***************************************************************************)
(* analyze_misorder_errors: the loop over the fetched rows.  acc carries   *)
(* the frequency dict, total_records and the loop's locals lcs and         *)
(* correct_model_keys as the last accepted row left them.                  *)
(***************************************************************************)
MisorderRaises(row) ==
    \/ LoadsRaises(row)
    \/ KeyIntsRaise(row.standard_json)
    \/ KeyIntsRaise(row.model_response_json)
    \/ CorrectLookupRaises(row.standard_json.obj, row.model_response_json.obj)

MisorderRow(acc, row) ==
    IF MisorderRaises(row) THEN acc
    ELSE LET S == row.standard_json.obj
             R == row.model_response_json.obj
             standard_keys == SortedKeyInts(DOMAIN S)
             cmk == CorrectModelKeys(S, R)
             lcs_ == longest_common_subsequence(standard_keys, cmk)
             misorder_keys == Filter(cmk, SeqToSet(cmk) \ SeqToSet(lcs_))
         IN  [frequency |-> DictIncAll(acc.frequency, misorder_keys),
              total |-> acc.total + 1,
              lcs |-> lcs_,
              correct_model_keys |-> cmk]

analyze_misorder_errors(rows) ==
    LET start == [frequency |-> EmptyDict, total |-> 0,
                  lcs |-> <<>>, correct_model_keys |-> <<>>]
        f[k \in 0..Len(rows)] ==
            IF k = 0 THEN start ELSE MisorderRow(f[k - 1], rows[k])
    IN  f[Len(rows)]

(***************************************************************************)
(* analyze_hallucination_errors.                                           *)
(***************************************************************************)
\* the markers of the two edges
StartMarker == 0
EndMarker == 41
\* left_anchor / right_anchor = None (keys are never negative here)
None == -1

\* all_model_keys.index(halluc_key)
IndexOf(q, x) == CHOOSE k \in 1..Len(q) : q[k] = x /\ \A l \in 1..(k - 1) : q[l] # x

\* the scan to the left of position pos for the nearest key in lcs
LeftAnchor(all_model_keys, lcs_, pos) ==
    LET P == {q \in 1..(pos - 1) : all_model_keys[q] \in SeqToSet(lcs_)}
    IN  IF P = {} THEN None
        ELSE all_model_keys[CHOOSE q \in P : \A o \in P : o <= q]

\* the scan to the right
RightAnchor(all_model_keys, lcs_, pos) ==
    LET P == {q \in (pos + 1)..Len(all_model_keys) : all_model_keys[q] \in SeqToSet(lcs_)}
    IN  IF P = {} THEN None
        ELSE all_model_keys[CHOOSE q \in P : \A o \in P : q <= o]

\* the intervals a counted hallucination key can add: the edge cases of
\* lines 211-225; <<>> stands for `continue`
IntervalOfEveryKey(left_anchor, right_anchor) ==
    IF left_anchor = None /\ right_anchor = None THEN <<<<StartMarker, EndMarker>>>>
    ELSE IF left_anchor = None THEN <<<<StartMarker, right_anchor>>>>
    ELSE IF right_anchor = None THEN <<<<left_anchor, EndMarker>>>>
    ELSE <<<<left_anchor, right_anchor>>>>

IntervalOf(left_anchor, right_anchor) ==
    IF left_anchor = None /\ right_anchor = None THEN <<>>
    ELSE IF left_anchor = None THEN <<<<StartMarker, right_anchor>>>>
    ELSE IF right_anchor = None THEN <<<<left_anchor, EndMarker>>>>
    ELSE <<<<left_anchor, right_anchor>>>>

\* the loop over hallucination_keys
RECURSIVE HallucinationLoop(_, _, _, _)
HallucinationLoop(freq, hallucination_keys, all_model_keys, lcs_) ==
    IF hallucination_keys = <<>> THEN freq
    ELSE LET halluc_pos == IndexOf(all_model_keys, Head(hallucination_keys))
             interval == IntervalOf(LeftAnchor(all_model_keys, lcs_, halluc_pos),
                                    RightAnchor(all_model_keys, lcs_, halluc_pos))
         IN  HallucinationLoop(DictIncAll(freq, interval),
                               Tail(hallucination_keys), all_model_keys, lcs_)

HallucinationRow(acc, row) ==
    IF MisorderRaises(row) THEN acc
    ELSE LET S == row.standard_json.obj
             R == row.model_response_json.obj
             standard_keys == SortedKeyInts(DOMAIN S)
             all_model_keys == SortedKeyInts(DOMAIN R)
             lcs_ == longest_common_subsequence(standard_keys, CorrectModelKeys(S, R))
             hallucination_keys ==
                 Filter(all_model_keys, SeqToSet(all_model_keys) \ SeqToSet(standard_keys))
         IN  [frequency |-> HallucinationLoop(acc.frequency, hallucination_keys,
                                              all_model_keys, lcs_),
              total |-> acc.total + 1]

analyze_hallucination_errors(rows) ==
    LET start == [frequency |-> EmptyDict, total |-> 0]
        f[k \in 0..Len(rows)] ==
            IF k = 0 THEN start ELSE HallucinationRow(f[k - 1], rows[k])
    IN  f[Len(rows)]

(***************************************************************************)
(* analyze_missing_errors.                                                 *)
(***************************************************************************)
MissingRaises(row) ==
    \/ LoadsRaises(row)
    \/ KeyIntsRaise(row.standard_json)
    \/ row.model_response_json.kind # "object"

\* correct_keys as the docstring describes them: the reference value was
\* given at some key of the response
CorrectKeysAnywhere(S, R) ==
    {int(k) : k \in {x \in DOMAIN S : \E y \in DOMAIN R : R[y] = S[x]}}

\* correct_keys: key present in the standard with the same value
CorrectKeys(S, R) ==
    {int(k) : k \in {x \in DOMAIN R : isdigit(x) /\ x \in DOMAIN S /\ R[x] = S[x]}}

\* the row step that starts the counts afresh after a skipped row
MissingRowRestartsOnSkip(acc, row) ==
    IF MissingRaises(row) THEN [frequency |-> EmptyDict, total |-> 0]
    ELSE LET S == row.standard_json.obj
             R == row.model_response_json.obj
             standard_keys == SortedKeyInts(DOMAIN S)
             correct_keys == CorrectKeys(S, R)
         IN  [frequency |-> DictIncAll(acc.frequency,
                               Filter(standard_keys, SeqToSet(standard_keys) \ correct_keys)),
              total |-> acc.total + 1]

MissingRow(acc, row) ==
    IF MissingRaises(row) THEN acc
    ELSE LET S == row.standard_json.obj
             R == row.model_response_json.obj
             standard_keys == SortedKeyInts(DOMAIN S)
             correct_keys == CorrectKeys(S, R)
         IN  [frequency |-> DictIncAll(acc.frequency,
                               Filter(standard_keys, SeqToSet(standard_keys) \ correct_keys)),
              total |-> acc.total + 1]

analyze_missing_errors(rows) ==
    LET start == [frequency |-> EmptyDict, total |-> 0]
        f[k \in 0..Len(rows)] ==
            IF k = 0 THEN start ELSE MissingRow(f[k - 1], rows[k])
    IN  f[Len(rows)]

(***************************************************************************)
(* analyze_table of analyze_position_accuracy.py.                          *)
(***************************************************************************)
\* [d[str(k)] for k in sorted ints] raises KeyError
SequenceLookupRaises(d) == \E k \in DOMAIN d : str(int(k)) \notin DOMAIN d

AllKeysParse(d) == \A k \in DOMAIN d : IntParses(k)

\* the row is skipped by the outer except: a column that does not load or is
\* no object, or a KeyError, which the inner except does not catch
PositionRaises(row) ==
    \/ LoadsRaises(row)
    \/ row.standard_json.kind # "object"
    \/ row.model_response_json.kind # "object"
    \/ LET S == row.standard_json.obj
           R == row.model_response_json.obj
       IN  \/ AllKeysParse(S) /\ SequenceLookupRaises(S)
           \/ AllKeysParse(S) /\ AllKeysParse(R) /\ SequenceLookupRaises(R)

\* (keys, values) of a dict by ascending int(key)
ByNumber(d) ==
    LET keys == SortedKeyInts(DOMAIN d)
    IN  [keys |-> keys, values |-> [k \in 1..Len(keys) |-> d[str(keys[k])]]]

\* (keys, values) of a dict by ascending key string
ByString(d) ==
    LET keys == SortedKeyStrings(DOMAIN d)
    IN  [keys |-> keys, values |-> [k \in 1..Len(keys) |-> d[keys[k]]]]

\* the positions read off the model's key list instead of the standard's
PositionsOfModelKeys(S, R) ==
    LET numeric == AllKeysParse(S) /\ AllKeysParse(R)
        std == IF numeric THEN ByNumber(S) ELSE ByString(S)
        mdl == IF numeric THEN ByNumber(R) ELSE ByString(R)
        lcs_indices == longest_common_subsequence_with_indices(std.values, mdl.values)
    IN  [k \in 1..Len(lcs_indices) |->
            LET position == mdl.keys[lcs_indices[k] + 1]
            IN  IF ~numeric /\ isdigit(position) THEN int(position) ELSE position]

\* the positions credited for one row
PositionsOf(S, R) ==
    LET numeric == AllKeysParse(S) /\ AllKeysParse(R)
        std == IF numeric THEN ByNumber(S) ELSE ByString(S)
        mdl == IF numeric THEN ByNumber(R) ELSE ByString(R)
        lcs_indices == longest_common_subsequence_with_indices(std.values, mdl.values)
    IN  [k \in 1..Len(lcs_indices) |->
            LET position == std.keys[lcs_indices[k] + 1]
            IN  IF ~numeric /\ isdigit(position) THEN int(position) ELSE position]

\* the row step that counts a skipped row as processed
PositionRowCountsSkipped(acc, row) ==
    IF PositionRaises(row) THEN [acc EXCEPT !.total = @ + 1]
    ELSE [frequency |-> DictIncAll(acc.frequency,
                            PositionsOf(row.standard_json.obj, row.model_response_json.obj)),
          total |-> acc.total + 1]

PositionRow(acc, row) ==
    IF PositionRaises(row) THEN acc
    ELSE [frequency |-> DictIncAll(acc.frequency,
                            PositionsOf(row.standard_json.obj, row.model_response_json.obj)),
          total |-> acc.total + 1]

analyze_table(rows) ==
    LET start == [frequency |-> EmptyDict, total |-> 0]
        f[k \in 0..Len(rows)] ==
            IF k = 0 THEN start ELSE PositionRow(f[k - 1], rows[k])
    IN  f[Len(rows)]

(***************************************************************************)
(* grade_answers of grading_utils.py.  Both callers (evaluate_test.py line *)
(* 50, analyze_summary.py line 127) leave order_by_key at its default      *)
(* True, and so does the model.  An argument is a parsed JSON value: an    *)
(* object, None (kind "null"), or a one-element array (kind "array"),     *)
(* which is truthy, has a length and has no keys().  The accuracy is a     *)
(* float in the source; the model keeps it exact, as the fraction num/den. *)
(***************************************************************************)
ArrayDoc == [kind |-> "array", obj |-> EmptyDict]

\* len(d) of an object or of the one-element array
len(doc) == IF doc.kind = "array" THEN 1 ELSE Cardinality(DOMAIN doc.obj)

Frac(n, d) == [num |-> n, den |-> d]

\* not d
Falsy(doc) == doc.kind = "null" \/ (doc.kind = "object" /\ DOMAIN doc.obj = {})

\* len(d) if d else 0
LenOrZero(doc) == IF Falsy(doc) THEN 0 ELSE len(doc)

\* the return of lines 82-92 with its accuracy at 100
EmptyStandardResultPerfect(student) ==
    [raised |-> FALSE, correct_count |-> 0, answered_count |-> LenOrZero(student),
     total |-> 0, accuracy |-> Frac(100, 1), edit_distance |-> LenOrZero(student),
     missing_count |-> 0, extra_count |-> LenOrZero(student), wrong_count |-> 0]

\* lines 82-92: the return taken when standard_answers is falsy
EmptyStandardResult(student) ==
    [raised |-> FALSE, correct_count |-> 0, answered_count |-> LenOrZero(student),
     total |-> 0, accuracy |-> Frac(0, 1), edit_distance |-> LenOrZero(student),
     missing_count |-> 0, extra_count |-> LenOrZero(student), wrong_count |-> 0]

\* the return of lines 94-104 with nothing reported missing
EmptyStudentResultNoMissing(standard) ==
    [raised |-> FALSE, correct_count |-> 0, answered_count |-> 0,
     total |-> len(standard), accuracy |-> Frac(0, 1),
     edit_distance |-> len(standard),
     missing_count |-> 0, extra_count |-> 0, wrong_count |-> 0]

\* lines 94-104: the return taken when student_answers is falsy
EmptyStudentResult(standard) ==
    [raised |-> FALSE, correct_count |-> 0, answered_count |-> 0,
     total |-> len(standard), accuracy |-> Frac(0, 1),
     edit_distance |-> len(standard),
     missing_count |-> len(standard),
     extra_count |-> 0, wrong_count |-> 0]

\* values_sequence_from_dict raises: d.keys() on an array (AttributeError),
\* or d[str(k)] for a key that is not its own numeral (KeyError); neither
\* is caught by except (ValueError, TypeError)
ValuesSequenceRaises(doc) ==
    \/ doc.kind # "object"
    \/ AllKeysParse(doc.obj) /\ SequenceLookupRaises(doc.obj)

\* lines 108-116
values_sequence_from_dict(d) ==
    IF AllKeysParse(d) THEN ByNumber(d).values ELSE ByString(d).values

\* the denominator taken from the standard sequence alone
MaxLengthOfStandard(s1, s2) == Len(s1)

\* line 165
max_length(s1, s2) == Max(Len(s1), Len(s2))

\* line 166
Accuracy(d, m) == IF m > 0 THEN Frac((m - d) * 100, m) ELSE Frac(0, 1)

\* the counts by key with the extra answers left among the wrong ones
GradeCountsWrongWithExtra(student, standard) ==
    LET numeric == AllKeysParse(standard) /\ AllKeysParse(student)
        standard_key_set ==
            IF numeric THEN {str(int(k)) : k \in DOMAIN standard} ELSE DOMAIN standard
        student_key_set ==
            IF numeric THEN {str(int(k)) : k \in DOMAIN student} ELSE DOMAIN student
        answered_count == Cardinality(DOMAIN student)
        correct_count ==
            Cardinality({k \in DOMAIN standard \cap DOMAIN student :
                student[k] = standard[k]})
    IN  [correct_count |-> correct_count, answered_count |-> answered_count,
         total |-> Cardinality(DOMAIN standard),
         missing_count |-> Cardinality(standard_key_set \ student_key_set),
         extra_count |-> Cardinality(student_key_set \ standard_key_set),
         wrong_count |-> answered_count - correct_count]

\* lines 130-162: the counts by key
GradeCounts(student, standard) ==
    LET numeric == AllKeysParse(standard) /\ AllKeysParse(student)
        standard_keys == SortedKeyInts(DOMAIN standard)
        standard_key_set ==
            IF numeric THEN {str(int(k)) : k \in DOMAIN standard} ELSE DOMAIN standard
        student_key_set ==
            IF numeric THEN {str(int(k)) : k \in DOMAIN student} ELSE DOMAIN student
        answered_count == Cardinality(DOMAIN student)
        correct_count ==
            IF numeric
            THEN Cardinality({p \in 1..Len(standard_keys) :
                     /\ str(standard_keys[p]) \in DOMAIN student
                     /\ student[str(standard_keys[p])] = standard[str(standard_keys[p])]})
            ELSE Cardinality({k \in standard_key_set \cap student_key_set :
                     student[k] = standard[k]})
        extra_count == Cardinality(student_key_set \ standard_key_set)
    IN  [correct_count |-> correct_count, answered_count |-> answered_count,
         total |-> Cardinality(DOMAIN standard),
         missing_count |-> Cardinality(standard_key_set \ student_key_set),
         extra_count |-> extra_count,
         wrong_count |-> answered_count - correct_count - extra_count]

\* what grade_answers leaves behind: its two sequences and its return
grade_answers(student, standard, allow) ==
    IF Falsy(standard)
    THEN [standard_sequence |-> <<>>, student_sequence |-> <<>>,
          result |-> EmptyStandardResult(student)]
    ELSE IF Falsy(student)
    THEN [standard_sequence |-> <<>>, student_sequence |-> <<>>,
          result |-> EmptyStudentResult(standard)]
    ELSE IF ValuesSequenceRaises(standard)
    THEN [standard_sequence |-> <<>>, student_sequence |-> <<>>,
          result |-> [NoResult EXCEPT !.raised = TRUE]]
    ELSE IF ValuesSequenceRaises(student)
    THEN [standard_sequence |-> values_sequence_from_dict(standard.obj),
          student_sequence |-> <<>>,
          result |-> [NoResult EXCEPT !.raised = TRUE]]
    ELSE LET s1 == values_sequence_from_dict(standard.obj)
             s2 == values_sequence_from_dict(student.obj)
             d  == calculate_edit_distance(s1, s2, allow)
             n  == GradeCounts(student.obj, standard.obj)
         IN  [standard_sequence |-> s1, student_sequence |-> s2,
              result |->
                  [raised |-> FALSE, correct_count |-> n.correct_count,
                   answered_count |-> n.answered_count, total |-> n.total,
                   accuracy |-> Accuracy(d, max_length(s1, s2)),
                   edit_distance |-> d, missing_count |-> n.missing_count,
                   extra_count |-> n.extra_count, wrong_count |-> n.wrong_count]]

(***************************************************************************)
(* SpecRecord: the four analysis functions run, in the order of            *)
(* analyze_model_errors and of the analyze task, on a table that holds one *)
(* row.                                                                    *)
(***************************************************************************)
\* reference keys are the numerals "0" .. str(MaxStandardKey)
MaxStandardKey == 2
\* the most entries a response object holds
MaxAnswers == 4

StandardKeys == {str(n) : n \in 0..MaxStandardKey}
\* the response may use the numerals "0" .. "3", a numeral with a leading
\* zero and a word
ResponseKeys == {str(n) : n \in 0..3}
OddKeys      == {<<"0", "1">>, <<"a">>}
ResponseValues == Elems \cup {"X"}

AllDicts(K, V) == UNION {[D -> V] : D \in SUBSET K}

\* the reference sets: values in order of first occurrence (A, then B, then
\* C), every other set being one of these with the values renamed
FirstOccurrenceOrder(d) ==
    LET vs == ByNumber(d).values
        rank(v) == CHOOSE n \in 1..3 : <<"A", "B", "C">>[n] = v
    IN  \A k \in 1..Len(vs) :
            rank(vs[k]) <= 1 + Cardinality({vs[l] : l \in 1..(k - 1)})

StandardDicts == {d \in AllDicts(StandardKeys, Elems) : FirstOccurrenceOrder(d)}
ResponseDicts ==
    {d \in {c @@ o : c \in AllDicts(ResponseKeys, ResponseValues),
                     o \in AllDicts(OddKeys, {"X"})} :
        Cardinality(DOMAIN d) <= MaxAnswers}

StandardDocs == {Obj(d) : d \in StandardDicts} \cup {Malformed}
ResponseDocs == {Obj(d) : d \in ResponseDicts} \cup {Malformed, NullDoc}

InitRecord ==
    /\ \E s \in StandardDocs, r \in ResponseDocs : records = <<Row(s, r)>>
    /\ phase = "misorder"
    /\ anchors = <<>> /\ correct_model_keys = <<>>
    /\ misorder_frequency = EmptyDict /\ total_misorder = 0
    /\ hallucination_frequency = EmptyDict /\ total_halluc = 0
    /\ missing_frequency = EmptyDict /\ total_missing = 0
    /\ position_frequency = EmptyDict /\ total_records = 0
    /\ LcsIdle /\ EditIdle /\ GradeIdle /\ RunIdle /\ SumIdle /\ AppIdle

\* analyze_errors.py line 449
AnalyzeMisorder ==
    /\ phase = "misorder"
    /\ LET res == analyze_misorder_errors(records)
       IN  /\ misorder_frequency' = res.frequency
           /\ total_misorder' = res.total
           /\ anchors' = res.lcs
           /\ correct_model_keys' = res.correct_model_keys
    /\ phase' = "hallucination"
    /\ UNCHANGED <<records, hallucination_frequency, total_halluc,
                   missing_frequency, total_missing,
                   position_frequency, total_records, lcsVars, editVars, gradeVars, runVars, sumVars, appVars>>

\* analyze_errors.py line 452
AnalyzeHallucination ==
    /\ phase = "hallucination"
    /\ LET res == analyze_hallucination_errors(records)
       IN  /\ hallucination_frequency' = res.frequency
           /\ total_halluc' = res.total
    /\ phase' = "missing"
    /\ UNCHANGED <<records, anchors, correct_model_keys,
                   misorder_frequency, total_misorder,
                   missing_frequency, total_missing,
                   position_frequency, total_records, lcsVars, editVars, gradeVars, runVars, sumVars, appVars>>

\* analyze_errors.py line 455
AnalyzeMissing ==
    /\ phase = "missing"
    /\ LET res == analyze_missing_errors(records)
       IN  /\ missing_frequency' = res.frequency
           /\ total_missing' = res.total
    /\ phase' = "position"
    /\ UNCHANGED <<records, anchors, correct_model_keys,
                   misorder_frequency, total_misorder,
                   hallucination_frequency, total_halluc,
                   position_frequency, total_records, lcsVars, editVars, gradeVars, runVars, sumVars, appVars>>

\* analyze_position_accuracy.py, started after analyze_errors.py (app.py 126-127)
AnalyzePosition ==
    /\ phase = "position"
    /\ LET res == analyze_table(records)
       IN  /\ position_frequency' = res.frequency
           /\ total_records' = res.total
    /\ phase' = "done"
    /\ UNCHANGED <<records, anchors, correct_model_keys,
                   misorder_frequency, total_misorder,
                   hallucination_frequency, total_halluc,
                   missing_frequency, total_missing, lcsVars, editVars, gradeVars, runVars, sumVars, appVars>>

NextRecord ==
    AnalyzeMisorder \/ AnalyzeHallucination \/ AnalyzeMissing \/ AnalyzePosition

SpecRecord == InitRecord /\ [][NextRecord]_vars

(***************************************************************************)
(* SpecBatch: the same four functions run on a table of up to MaxBatch     *)
(* rows.  A column holds a text that does not load, a null, or one of a    *)
(* few objects: the reference sets are keyed 0..2 or by 2 and 10 (which    *)
(* sort differently as numbers and as strings); the responses add an       *)
(* inserted answer, a word key, or a numeral with a leading zero.          *)
(***************************************************************************)
MaxBatch == 2

BatchStandards ==
    {Obj(<<"0">> :> "A" @@ <<"1">> :> "B" @@ <<"2">> :> "C"),
     Obj(<<"2">> :> "A" @@ <<"1", "0">> :> "B"),
     Malformed, NullDoc}
BatchResponses ==
    {Obj(<<"0">> :> "A" @@ <<"1">> :> "X" @@ <<"2">> :> "B" @@ <<"3">> :> "C"),
     Obj(<<"2">> :> "A" @@ <<"1", "0">> :> "B"),
     Obj(<<"2">> :> "A" @@ <<"a">> :> "B"),
     Obj(<<"0">> :> "A" @@ <<"0", "1">> :> "X"),
     Malformed, NullDoc}
BatchRows == {Row(s, r) : s \in BatchStandards, r \in BatchResponses}

InitBatch ==
    /\ records \in SeqsUpTo(BatchRows, MaxBatch)
    /\ phase = "misorder"
    /\ anchors = <<>> /\ correct_model_keys = <<>>
    /\ misorder_frequency = EmptyDict /\ total_misorder = 0
    /\ hallucination_frequency = EmptyDict /\ total_halluc = 0
    /\ missing_frequency = EmptyDict /\ total_missing = 0
    /\ position_frequency = EmptyDict /\ total_records = 0
    /\ LcsIdle /\ EditIdle /\ GradeIdle /\ RunIdle /\ SumIdle /\ AppIdle

SpecBatch == InitBatch /\ [][NextRecord]_vars

(***************************************************************************)
(* SpecGrade: one call of grade_answers, allow_transposition left at its   *)
(* default as both callers do.  Either argument is None, an                *)
(* array, or an object of at most MaxGradeEntries entries whose keys are   *)
(* numerals ("10" sorts before "2" as a string and after it as a number),  *)
(* a numeral with a leading zero, or a word.                               *)
(***************************************************************************)
MaxGradeEntries == 3

GradeKeys == {<<"0">>, <<"1">>, <<"2">>, <<"1", "0">>, <<"0", "1">>, <<"a">>}
GradeValues == {"A", "B"}

GradeDicts ==
    {d \in AllDicts(GradeKeys, GradeValues) : Cardinality(DOMAIN d) <= MaxGradeEntries}
GradeDocs == {Obj(d) : d \in GradeDicts} \cup {NullDoc, ArrayDoc}

InitGrade ==
    /\ student_answers \in GradeDocs
    /\ standard_answers \in GradeDocs
    /\ allow_transposition = DefaultAllowTransposition
    /\ standard_sequence = <<>> /\ student_sequence = <<>>
    /\ grade_result = NoResult
    /\ pcGrade = "call"
    /\ ed_seq1 = <<>> /\ ed_seq2 = <<>> /\ edit_distance = -1 /\ pcEdit = "idle"
    /\ LcsIdle /\ RecIdle /\ RunIdle /\ SumIdle /\ AppIdle

GradeAnswersCall ==
    /\ pcGrade = "call"
    /\ LET res == grade_answers(student_answers, standard_answers, allow_transposition)
       IN  /\ standard_sequence' = res.standard_sequence
           /\ student_sequence' = res.student_sequence
           /\ grade_result' = res.result
    /\ pcGrade' = "done"
    /\ UNCHANGED <<student_answers, standard_answers, lcsVars, editVars, recVars, runVars, sumVars, appVars>>

NextGrade == GradeAnswersCall

SpecGrade == InitGrade /\ [][NextGrade]_vars

(***************************************************************************)
(* Reference notions the LCS and edit-distance claims are stated against.  *)
(***************************************************************************)
\* s is a subsequence of t
RECURSIVE IsSubsequence(_, _)
IsSubsequence(s, t) ==
    IF s = <<>> THEN TRUE
    ELSE IF t = <<>> THEN FALSE
    ELSE IF Head(s) = Head(t) THEN IsSubsequence(Tail(s), Tail(t))
    ELSE IsSubsequence(s, Tail(t))

\* the elements of s at the positions P, in order
RECURSIVE Restrict(_, _, _)
Restrict(s, P, k) ==
    IF k > Len(s) THEN <<>>
    ELSE IF k \in P THEN <<s[k]>> \o Restrict(s, P, k + 1)
    ELSE Restrict(s, P, k + 1)

\* the length of a longest common subsequence, by enumeration
LcsLength(s, t) ==
    LET lens == {Cardinality(P) : P \in {Q \in SUBSET (1..Len(s)) :
                                         IsSubsequence(Restrict(s, Q, 1), t)}}
    IN  CHOOSE n \in lens : \A k \in lens : k <= n

\* the Levenshtein distance, by the textbook recursion on the heads
RECURSIVE Levenshtein(_, _)
Levenshtein(s, t) ==
    IF s = <<>> THEN Len(t)
    ELSE IF t = <<>> THEN Len(s)
    ELSE IF Head(s) = Head(t) THEN Levenshtein(Tail(s), Tail(t))
    ELSE 1 + Min3(Levenshtein(Tail(s), t), Levenshtein(s, Tail(t)),
                  Levenshtein(Tail(s), Tail(t)))

\* the distance with adjacent transpositions at cost 1 (optimal string
\* alignment), by recursion on the heads
RECURSIVE Damerau(_, _)
Damerau(s, t) ==
    IF s = <<>> THEN Len(t)
    ELSE IF t = <<>> THEN Len(s)
    ELSE LET cost == IF Head(s) = Head(t) THEN 0 ELSE 1
             plain == Min3(Damerau(Tail(s), t) + 1, Damerau(s, Tail(t)) + 1,
                           Damerau(Tail(s), Tail(t)) + cost)
         IN  IF Len(s) > 1 /\ Len(t) > 1 /\ s[1] = t[2] /\ s[2] = t[1]
             THEN Min(plain, Damerau(Tail(Tail(s)), Tail(Tail(t))) + 1)
             ELSE plain

\* two sequences that are one another with two distinct elements swapped
IsSwappedPair(s, t) ==
    /\ Len(s) = 2 /\ Len(t) = 2
    /\ s[1] # s[2] /\ t[1] = s[2] /\ t[2] = s[1]

(***************************************************************************)
(* Claims about the LCS routine (SpecLCS).                                 *)
(***************************************************************************)
AtTie ==
    /\ pcLcs = "backtrace" /\ i > 0 /\ j > 0
    /\ seq1[i] # seq2[j]
    /\ dp[i - 1][j] = dp[i][j - 1]

\* C7 as stated: when the current elements differ and dp[i-1][j] equals
\* dp[i][j-1], the backtrace decrements the row index i and keeps j.
C7_TieDecrementsRow ==
    [][AtTie => (i' = i - 1 /\ j' = j)]_vars

\* C7 amended: when the current elements differ and dp[i-1][j] equals
\* dp[i][j-1], the backtrace decrements the column index j and keeps i
\* (the row index is decremented only when dp[i-1][j] is strictly larger).
C7_TieDecrementsColumn ==
    [][AtTie => (i' = i /\ j' = j - 1)]_vars

\* C7 witness: [A,B] against [B,A] has the two alignments [0] and [1]; the
\* tie at (2,2) was resolved and the routine returned index 1.
C7_Witness ==
    /\ pcLcs = "done"
    /\ seq1 = <<"A", "B">> /\ seq2 = <<"B", "A">>
    /\ indices = <<1>> /\ lcs = <<"B">>

\* C8: the index list returned for (seq1, seq2) is strictly increasing, holds
\* valid indices of seq1, selects elements that form a subsequence of seq2,
\* is no longer than min(|seq1|, |seq2|), and is as long as a longest common
\* subsequence of the two.
C8_LcsIndicesSound ==
    pcLcs = "done" =>
        /\ \A k \in 1..Len(indices) : indices[k] \in 0..(Len(seq1) - 1)
        /\ \A k \in 1..Len(indices) : \A l \in 1..Len(indices) :
               k < l => indices[k] < indices[l]
        /\ IsSubsequence([k \in 1..Len(indices) |-> seq1[indices[k] + 1]], seq2)
        /\ Len(indices) <= Min(Len(seq1), Len(seq2))
        /\ Len(indices) = LcsLength(seq1, seq2)
        /\ indices = longest_common_subsequence_with_indices(seq1, seq2)

\* C8 witness: a run that returned two indices with a gap between them.
C8_Witness ==
    /\ pcLcs = "done"
    /\ seq1 = <<"A", "C", "B">> /\ seq2 = <<"A", "B">>
    /\ indices = <<0, 2>>

C10_TranspositionCostsOne ==
    (pcEdit = "done" /\ allow_transposition) =>
        /\ edit_distance = Damerau(ed_seq1, ed_seq2)
        /\ IsSwappedPair(ed_seq1, ed_seq2) => edit_distance = 1

(***************************************************************************)
(* Claims about the analyses of one row (SpecRecord).                      *)
(***************************************************************************)
TheRow == records[1]
BothObjects ==
    /\ TheRow.standard_json.kind = "object"
    /\ TheRow.model_response_json.kind = "object"
StdObj == TheRow.standard_json.obj
RspObj == TheRow.model_response_json.obj
StdInts == {int(k) : k \in DOMAIN StdObj}

\* every key is the plain numeral of a non-negative integer
CanonicalKeys ==
    \A k \in DOMAIN StdObj \cup DOMAIN RspObj : IntParses(k) /\ str(int(k)) = k

\* the three functions of analyze_errors.py all counted the row
AcceptedByErrorAnalyses ==
    total_misorder = 1 /\ total_halluc = 1 /\ total_missing = 1

ScenarioA ==
    /\ BothObjects
    /\ StdObj = (<<"0">> :> "A" @@ <<"1">> :> "B" @@ <<"2">> :> "C")
    /\ RspObj = (<<"0">> :> "A" @@ <<"1">> :> "X" @@ <<"2">> :> "B" @@ <<"3">> :> "C")

ScenarioB ==
    /\ BothObjects
    /\ StdObj = (<<"0">> :> "A" @@ <<"1">> :> "B")
    /\ RspObj = (<<"0">> :> "B" @@ <<"1">> :> "A")

C2_ScenarioBOneMisorder ==
    (phase = "done" /\ ScenarioB) =>
        /\ SeqToSet(correct_model_keys) = {0, 1}
        /\ Len(anchors) = 1
        /\ Cardinality(DOMAIN misorder_frequency) = 1
        /\ \A k \in DOMAIN misorder_frequency : misorder_frequency[k] = 1

\* C3 as stated: in scenario A exactly one hallucination is recorded, on
\* the interval (0, 1).
C3_ScenarioAInterval ==
    (phase = "done" /\ ScenarioA) =>
        hallucination_frequency = (<<StartMarker, 1>> :> 1)

\* C4: when the reference values, taken by ascending key, appear in the
\* response values in the same relative order (scenario A: [A,B,C] inside
\* [A,X,B,C]), analyze_table credits every reference key exactly once.
C4_InsertedValueKeepsCredit ==
    (phase = "done" /\ BothObjects /\ CanonicalKeys
        /\ IsSubsequence(ByNumber(StdObj).values, ByNumber(RspObj).values)) =>
        /\ total_records = 1
        /\ position_frequency = [n \in StdInts |-> 1]

\* C4 witness: scenario A analysed, keys 0, 1 and 2 credited once each.
C4_Witness ==
    /\ phase = "done" /\ ScenarioA
    /\ position_frequency = (0 :> 1 @@ 1 :> 1 @@ 2 :> 1)

\* C5 as stated: a reference key is counted as Missing if and only if its
\* reference value appears at no key of the response.
C5_MissingIffValueAbsent ==
    (phase = "done" /\ BothObjects /\ total_missing = 1) =>
        \A k \in DOMAIN StdObj :
            (int(k) \in DOMAIN missing_frequency)
                <=> ~(\E y \in DOMAIN RspObj : RspObj[y] = StdObj[k])

\* The response keys whose number is no reference key, and the interval
\* the claim bounds each of them with.
HallucinatedKeys == {k \in DOMAIN RspObj : int(k) \notin StdInts}
AnchorSet == SeqToSet(anchors)
NearestLeft(k) ==
    LET L == {a \in AnchorSet : a < int(k)}
    IN  IF L = {} THEN StartMarker ELSE CHOOSE a \in L : \A o \in L : o <= a
NearestRight(k) ==
    LET G == {a \in AnchorSet : a > int(k)}
    IN  IF G = {} THEN EndMarker ELSE CHOOSE a \in G : \A o \in G : a <= o
\* the table that results when each key of H adds one to its interval
IntervalCounts(H) ==
    [iv \in {<<NearestLeft(k), NearestRight(k)>> : k \in H} |->
        Cardinality({k \in H : <<NearestLeft(k), NearestRight(k)>> = iv})]

Graded == pcGrade = "done"
Returned == Graded /\ ~grade_result.raised

\* every numeral among the keys is written without a leading zero
CanonicalNumerals(d) == \A k \in DOMAIN d : IntParses(k) => str(int(k)) = k

\* the accuracy as a fraction equals the number p
AccuracyIs(p) == grade_result.accuracy.num = p * grade_result.accuracy.den

Tabulated(f) == f @@ <<>>

\* the distance without transposition of every pair of bounded sequences,
\* each computed once
DistanceTable ==
    Tabulated([a \in SeqsUpTo(Elems, MaxLen) |->
        Tabulated([b \in SeqsUpTo(Elems, MaxLen) |->
            calculate_edit_distance(a, b, FALSE)])])

\* C12: without transposition the distance is a metric: d(a,b) = d(b,a),
\* d(a,c) <= d(a,b) + d(b,c) for every c, and d(a,b) = 0 only when a = b.
C12_DistanceIsMetric ==
    (pcEdit = "done" /\ ~allow_transposition) =>
        /\ edit_distance = DistanceTable[ed_seq2][ed_seq1]
        /\ edit_distance = 0 => ed_seq1 = ed_seq2
        /\ \A c \in SeqsUpTo(Elems, MaxLen) :
               DistanceTable[ed_seq1][c]
                   <= edit_distance + DistanceTable[ed_seq2][c]

C12_Witness ==
    /\ pcEdit = "done" /\ ~allow_transposition
    /\ ed_seq1 = <<"A", "B", "C">> /\ ed_seq2 = <<"B", "C">>
    /\ edit_distance = 1
    /\ calculate_edit_distance(ed_seq1, <<"C", "B">>, FALSE) = 2
    /\ calculate_edit_distance(ed_seq2, <<"C", "B">>, FALSE) = 2

\* the length of the value sequence of an argument: its number of entries
EntriesOf(doc) == LenOrZero(doc)

\* C13: whenever grade_answers returns, 0 <= d <= maxLen for
\* maxLen = max(|standard sequence|, |response sequence|), the accuracy lies
\* in [0,100], and it is (1 - d/maxLen) * 100 when maxLen > 0.
C13_AccuracyInRange ==
    Returned =>
        LET d == grade_result.edit_distance
            m == Max(EntriesOf(standard_answers), EntriesOf(student_answers))
            a == grade_result.accuracy
        IN  /\ 0 <= d /\ d <= m
            /\ a.den > 0
            /\ 0 <= a.num /\ a.num <= 100 * a.den
            /\ m > 0 => a.num * m = (m - d) * 100 * a.den

C13_Witness ==
    /\ Returned
    /\ Len(standard_sequence) = 2 /\ Len(student_sequence) = 3
    /\ grade_result.edit_distance = 2
    /\ grade_result.accuracy.num * 3 = 100 * grade_result.accuracy.den

\* C14: an empty reference set makes grade_answers return, without raising,
\* accuracy 0.0, total 0 and extra_count = edit_distance = the number of
\* response entries; with both sets empty the accuracy is 0.0.
C14_EmptyReference ==
    (Graded /\ standard_answers = Obj(EmptyDict)) =>
        /\ ~grade_result.raised
        /\ AccuracyIs(0)
        /\ grade_result.total = 0
        /\ grade_result.extra_count = EntriesOf(student_answers)
        /\ grade_result.edit_distance = EntriesOf(student_answers)

C14_Witness ==
    /\ Returned
    /\ standard_answers = Obj(EmptyDict)
    /\ student_answers = Obj(<<"0", "1">> :> "A" @@ <<"a">> :> "B")
    /\ grade_result.extra_count = 2 /\ grade_result.edit_distance = 2
    /\ AccuracyIs(0)

\* C15: for standard {"0": "A"} and the empty response, grade_answers
\* returns accuracy 0.0, edit_distance 1 and missing_count 1, and the
\* missing analysis of that record counts key 0 once.
ScenarioC ==
    /\ standard_answers = Obj(<<"0">> :> "A")
    /\ student_answers = Obj(EmptyDict)

C15_ScenarioCMissing ==
    (Graded /\ ScenarioC) =>
        /\ ~grade_result.raised
        /\ AccuracyIs(0)
        /\ grade_result.edit_distance = 1
        /\ grade_result.missing_count = 1
        /\ analyze_missing_errors(<<Row(standard_answers, student_answers)>>)
               = [frequency |-> (0 :> 1), total |-> 1]

C15_Witness ==
    /\ Returned /\ ScenarioC
    /\ grade_result.missing_count = 1 /\ grade_result.total = 1

(***************************************************************************)
(* Properties of the key ordering, the interval table and the batch loops. *)
(***************************************************************************)
\* (keys, values) of one answer set under the per-set policy: by number when
\* all of its own keys parse, by string otherwise
PerSetOrder(d) == IF AllKeysParse(d) THEN ByNumber(d) ELSE ByString(d)

\* the positions credited when each set of the row is ordered on its own
PerSetPositions(S, R) ==
    LET std == PerSetOrder(S)
        mdl == PerSetOrder(R)
        lcs_indices == longest_common_subsequence_with_indices(std.values, mdl.values)
    IN  [k \in 1..Len(lcs_indices) |->
            LET position == std.keys[lcs_indices[k] + 1]
            IN  IF ~AllKeysParse(S) /\ isdigit(position) THEN int(position)
                ELSE position]

\* C16: the ordering is decided per answer set: a set whose keys all parse
\* is ordered by ascending number, a set with a key that does not parse is
\* ordered by string, so the position analysis of a one-row table credits
\* the positions aligned under that ordering.
C16_OrderingPerAnswerSet ==
    (/\ phase = "done" /\ Len(records) = 1 /\ BothObjects
     /\ CanonicalNumerals(StdObj) /\ CanonicalNumerals(RspObj)) =>
        /\ total_records = 1
        /\ position_frequency = DictIncAll(EmptyDict, PerSetPositions(StdObj, RspObj))

\* C17: building the value sequences never raises, whatever the keys of the
\* two objects are.
C17_SequenceNeverRaises ==
    (/\ Graded
     /\ standard_answers.kind = "object"
     /\ student_answers.kind = "object") => ~grade_result.raised

\* C18: a recorded interval starts at 0 only for a hallucinated key with no
\* anchor to its left and ends at 41 only for one with no anchor to its
\* right, and no anchor key equals a marker.
C18_MarkersOnlyWithoutAnchor ==
    (phase = "done" /\ BothObjects /\ AcceptedByErrorAnalyses) =>
        \A k \in HallucinatedKeys :
            LET iv == <<NearestLeft(k), NearestRight(k)>>
            IN  iv \in DOMAIN hallucination_frequency =>
                    /\ iv[1] = StartMarker => {a \in AnchorSet : a < int(k)} = {}
                    /\ iv[2] = EndMarker => {a \in AnchorSet : a > int(k)} = {}
                    /\ StartMarker \notin AnchorSet /\ EndMarker \notin AnchorSet

\* C19: every row of every frequency table has frequency <= the
\* total_records written with it.
C19_FrequencyAtMostTotal ==
    phase = "done" =>
        /\ \A k \in DOMAIN position_frequency : position_frequency[k] <= total_records
        /\ \A k \in DOMAIN misorder_frequency : misorder_frequency[k] <= total_misorder
        /\ \A k \in DOMAIN missing_frequency : missing_frequency[k] <= total_missing
        /\ \A iv \in DOMAIN hallucination_frequency :
               hallucination_frequency[iv] <= total_halluc

\* both columns of the row load as JSON objects
WellFormed(row) ==
    /\ row.standard_json.kind = "object"
    /\ row.model_response_json.kind = "object"

WellFormedRecords == SelectSeq(records, WellFormed)

\* the rows of the table one analysis classifies without error
Classified(analysis(_)) ==
    {n \in DOMAIN records : analysis(<<records[n]>>).total = 1}

\* C20: in each of the four loops a row that is malformed or no object
\* leaves every count and total_records as they were, the rows after it are
\* still processed (the outcome is that of the table without such rows),
\* and total_records is the number of rows classified without error.
C20_MalformedRecordSkipped ==
    phase = "done" =>
        LET mis == analyze_misorder_errors(WellFormedRecords)
            hal == analyze_hallucination_errors(WellFormedRecords)
            mss == analyze_missing_errors(WellFormedRecords)
            pos == analyze_table(WellFormedRecords)
        IN  /\ misorder_frequency = mis.frequency /\ total_misorder = mis.total
            /\ hallucination_frequency = hal.frequency /\ total_halluc = hal.total
            /\ missing_frequency = mss.frequency /\ total_missing = mss.total
            /\ position_frequency = pos.frequency /\ total_records = pos.total
            /\ total_misorder = Cardinality(Classified(analyze_misorder_errors))
            /\ total_halluc = Cardinality(Classified(analyze_hallucination_errors))
            /\ total_missing = Cardinality(Classified(analyze_missing_errors))
            /\ total_records = Cardinality(Classified(analyze_table))
            /\ total_records <= Len(WellFormedRecords)

\* C20 witness: a row that does not load was followed by a row with an
\* inserted answer, and only the second was counted.
C20_Witness ==
    /\ phase = "done" /\ Len(records) = 2
    /\ records[1].standard_json = Malformed
    /\ WellFormed(records[2])
    /\ total_misorder = 1 /\ total_halluc = 1 /\ total_missing = 1
    /\ total_records = 1
    /\ hallucination_frequency = (<<0, EndMarker>> :> 1)
    /\ position_frequency = (0 :> 1 @@ 1 :> 1 @@ 2 :> 1)

C25_CreditedNeverMissing ==
    (phase = "done" /\ BothObjects /\ total_records = 1 /\ total_missing = 1) =>
        DOMAIN position_frequency \cap DOMAIN missing_frequency = {}

\* C26: the three error analyses count the same records, so their three
\* totals are equal.
C26_SameRecordsAccepted ==
    phase = "done" =>
        /\ total_misorder = total_halluc
        /\ total_halluc = total_missing

\* every key is the plain numeral of a non-negative integer
IntegerKeyed(doc) ==
    /\ doc.kind = "object"
    /\ AllKeysParse(doc.obj) /\ CanonicalNumerals(doc.obj)

\* C27: for answer sets keyed by plain numerals (either may be empty)
\* grade_answers returns counts with
\* total = correct_count + wrong_count + missing_count,
\* answered_count = correct_count + wrong_count + extra_count,
\* and no count negative.
C27_CountIdentities ==
    (Graded /\ IntegerKeyed(standard_answers) /\ IntegerKeyed(student_answers)) =>
        LET g == grade_result
        IN  /\ ~g.raised
            /\ g.total = g.correct_count + g.wrong_count + g.missing_count
            /\ g.answered_count = g.correct_count + g.wrong_count + g.extra_count
            /\ g.correct_count >= 0 /\ g.wrong_count >= 0
            /\ g.missing_count >= 0 /\ g.extra_count >= 0
            /\ g.total >= 0 /\ g.answered_count >= 0

\* C27 witness: one answer right, one wrong, one missing and one extra.
C27_Witness ==
    /\ Returned
    /\ IntegerKeyed(standard_answers) /\ IntegerKeyed(student_answers)
    /\ grade_result.correct_count = 1 /\ grade_result.wrong_count = 1
    /\ grade_result.missing_count = 1 /\ grade_result.extra_count = 1

(***************************************************************************)
(* SpecRuns: analyze_position_accuracy run several times against the same  *)
(* result database.  Each run reads the source table as it is then, and    *)
(* writes one row per credited position with INSERT OR REPLACE; the result *)
(* table is created with CREATE TABLE IF NOT EXISTS and no row is deleted. *)
(***************************************************************************)
MaxRuns == 2

\* the rows the source table may hold at the time of a run: the source
\* database is the file named on the command line, the result database is
\* named after that file's base name, so the table read by one run need not
\* extend the table read by the run before it
RunStandard == Obj(<<"0">> :> "A" @@ <<"1">> :> "B" @@ <<"2">> :> "C")
RunResponses ==
    {Obj(<<"0">> :> "A" @@ <<"1">> :> "X" @@ <<"2">> :> "B" @@ <<"3">> :> "C"),
     Obj(<<"0">> :> "A"),
     Obj(<<"0">> :> "A" @@ <<"1">> :> "B"),
     Obj(<<"0">> :> "X"),
     Malformed}
RunRows == {Row(RunStandard, r) : r \in RunResponses}

\* (frequency / total_records * 100) if total_records > 0 else 0.0
Probability(frequency, total) ==
    IF total > 0 THEN Frac(frequency * 100, total) ELSE Frac(0, 1)

\* INSERT OR REPLACE of one row per key of position_frequency
insert_position_stats(table, frequency, total) ==
    [k \in DOMAIN table \cup DOMAIN frequency |->
        IF k \in DOMAIN frequency
        THEN [frequency |-> frequency[k],
              probability |-> Probability(frequency[k], total),
              total_records |-> total]
        ELSE table[k]]

InitRuns ==
    /\ RunIdle
    /\ LcsIdle /\ EditIdle /\ GradeIdle /\ RecIdle /\ SumIdle /\ AppIdle

\* one run of the script on one source table
RunPositionAnalysis ==
    /\ runs < MaxRuns
    /\ \E batch \in SeqsUpTo(RunRows, MaxBatch) :
          LET res == analyze_table(batch)
          IN  /\ records' = batch
              /\ position_frequency' = res.frequency
              /\ total_records' = res.total
              /\ result_table' =
                    IF res.frequency = EmptyDict THEN result_table
                    ELSE insert_position_stats(result_table, res.frequency, res.total)
    /\ runs' = runs + 1
    /\ UNCHANGED <<phase, anchors, correct_model_keys,
                   misorder_frequency, total_misorder,
                   hallucination_frequency, total_halluc,
                   missing_frequency, total_missing,
                   lcsVars, editVars, gradeVars, sumVars, appVars>>

NextRuns == RunPositionAnalysis

SpecRuns == InitRuns /\ [][NextRuns]_vars

\* C23: after any sequence of runs writing the same result table, every
\* stored row carries the total_records of the latest run and the
\* probability its frequency gives against that total.
C23_NoStaleRows ==
    runs >= 1 =>
        \A k \in DOMAIN result_table :
            /\ result_table[k].total_records = total_records
            /\ result_table[k].probability.num * total_records =
                   result_table[k].frequency * 100 * result_table[k].probability.den

(***************************************************************************)
(* SpecSummary: analyze_table of analyze_summary.py over the rows fetched  *)
(* from one table.  A row carries standard_json, model_response_json and   *)
(* elapsed_time; floats are kept as exact fractions.                       *)
(***************************************************************************)
SummaryRow(s, r, e) ==
    [standard_json |-> s, model_response_json |-> r, elapsed_time |-> e]

FracLess(a, b) == a.num * b.den < b.num * a.den
FracAdd(a, b) == Frac(a.num * b.den + b.num * a.den, a.den * b.den)

RECURSIVE FracSum(_)
FracSum(q) == IF q = <<>> THEN Frac(0, 1) ELSE FracAdd(Head(q), FracSum(Tail(q)))

RECURSIVE IntSum(_)
IntSum(q) == IF q = <<>> THEN 0 ELSE Head(q) + IntSum(Tail(q))

\* statistics.mean of a non-empty list of fractions
MeanFracs(q) == Frac(FracSum(q).num, FracSum(q).den * Len(q))

\* statistics.mean of a non-empty list of integers
MeanInts(q) == Frac(IntSum(q), Len(q))

RECURSIVE InsertFrac(_, _)
InsertFrac(q, x) ==
    IF q = <<>> THEN <<x>>
    ELSE IF FracLess(x, Head(q)) THEN <<x>> \o q
    ELSE <<Head(q)>> \o InsertFrac(Tail(q), x)

\* sorted(q)
RECURSIVE SortFracs(_)
SortFracs(q) == IF q = <<>> THEN <<>> ELSE InsertFrac(SortFracs(Tail(q)), Head(q))

\* statistics.median of a non-empty list
MedianFracs(q) ==
    LET srt == SortFracs(q)
        n == Len(q)
    IN  IF n % 2 = 1 THEN srt[(n + 1) \div 2]
        ELSE LET two == FracAdd(srt[n \div 2], srt[n \div 2 + 1])
             IN  Frac(two.num, two.den * 2)

\* the try block of one row raises: json.loads, or grade_answers
SummaryRowRaises(row) ==
    \/ LoadsRaises(row)
    \/ grade_answers(row.model_response_json, row.standard_json,
                     DefaultAllowTransposition).result.raised

\* one iteration of the loop of lines 123-133
SummaryRowStep(acc, row) ==
    IF SummaryRowRaises(row) THEN acc
    ELSE [accuracies |-> Append(acc.accuracies,
              grade_answers(row.model_response_json, row.standard_json,
                            DefaultAllowTransposition).result.accuracy),
          elapsed_times |-> IF row.elapsed_time # 0
                            THEN Append(acc.elapsed_times, row.elapsed_time)
                            ELSE acc.elapsed_times]

RECURSIVE SummaryLoop(_, _)
SummaryLoop(acc, rows) ==
    IF rows = <<>> THEN acc
    ELSE SummaryLoop(SummaryRowStep(acc, Head(rows)), Tail(rows))

\* the returned dict (identifier and db_type left out)
SummaryOf(rows, acc) ==
    IF rows = <<>> THEN NoSummary
    ELSE IF acc.accuracies = <<>> THEN [NoSummary EXCEPT !.record_count = Len(rows)]
    ELSE [record_count |-> Len(acc.accuracies),
          avg_accuracy |-> MeanFracs(acc.accuracies),
          median_accuracy |-> MedianFracs(acc.accuracies),
          min_accuracy |-> Head(SortFracs(acc.accuracies)),
          max_accuracy |-> SortFracs(acc.accuracies)[Len(acc.accuracies)],
          avg_elapsed_time |-> IF acc.elapsed_times # <<>>
                               THEN MeanInts(acc.elapsed_times) ELSE Frac(0, 1)]

\* the rows of the summary universe
SummaryStandards == {Obj(<<"0">> :> "A" @@ <<"1">> :> "B"), NullDoc, Malformed}
SummaryResponses ==
    {Obj(<<"0">> :> "A" @@ <<"1">> :> "B"), Obj(<<"0">> :> "A"),
     NullDoc, ArrayDoc, Malformed}
ElapsedTimes == {0, 2}
SummaryRows ==
    {SummaryRow(s, r, e) : s \in SummaryStandards, r \in SummaryResponses,
                           e \in ElapsedTimes}

InitSummary ==
    /\ records \in SeqsUpTo(SummaryRows, MaxBatch)
    /\ phase = "summary"
    /\ anchors = <<>> /\ correct_model_keys = <<>>
    /\ misorder_frequency = EmptyDict /\ total_misorder = 0
    /\ hallucination_frequency = EmptyDict /\ total_halluc = 0
    /\ missing_frequency = EmptyDict /\ total_missing = 0
    /\ position_frequency = EmptyDict /\ total_records = 0
    /\ SumIdle
    /\ LcsIdle /\ EditIdle /\ GradeIdle /\ RunIdle /\ AppIdle

AnalyzeSummary ==
    /\ phase = "summary"
    /\ LET acc == SummaryLoop([accuracies |-> <<>>, elapsed_times |-> <<>>], records)
       IN  /\ accuracies' = acc.accuracies
           /\ elapsed_times' = acc.elapsed_times
           /\ summary' = SummaryOf(records, acc)
    /\ phase' = "done"
    /\ UNCHANGED <<records, anchors, correct_model_keys,
                   misorder_frequency, total_misorder,
                   hallucination_frequency, total_halluc,
                   missing_frequency, total_missing,
                   position_frequency, total_records,
                   lcsVars, editVars, gradeVars, runVars, appVars>>

NextSummary == AnalyzeSummary

SpecSummary == InitSummary /\ [][NextSummary]_vars

\* both documents of the row parsed to mappings
BothMappings(row) ==
    row.standard_json.kind = "object" /\ row.model_response_json.kind = "object"

\* C21: a record whose response or reference is not a mapping contributes no
\* accuracy value: the accuracy values number at most the records whose two
\* documents are mappings.
C21_NonMappingRejected ==
    phase = "done" =>
        Len(accuracies) <= Cardinality({k \in DOMAIN records : BothMappings(records[k])})

\* C28: record_count is the number of accuracy values the statistics are
\* computed from.
C28_RecordCountIsGraded ==
    phase = "done" /\ records # <<>> => summary.record_count = Len(accuracies)

(***************************************************************************)
(* SpecApp: the web application.  All handlers and background tasks run on *)
(* one event loop, so a step is the code between two awaits.  A task is a  *)
(* background task: run_command once for /api/run_test, four commands in   *)
(* sequence for /api/analyze.  Its pc is "scheduled" (added, not started), *)
(* "launching" (awaiting create_subprocess_exec), "reading" (awaiting      *)
(* readline), "waiting" (awaiting process.wait), "done", or "raised" (the  *)
(* launch raised and the task ended).  proc is the state of the subprocess *)
(* of its current command.  A line is named by its arrival number.         *)
(***************************************************************************)
MaxTasks == 2
MaxLines == 4
\* the cap of line 89 (1000 lines), scaled down
MaxLogLines == 2

\* number of commands a background task runs
CommandsOf(kind) == IF kind = "analyze" THEN 4 ELSE 1

NewTask(kind) ==
    [kind |-> kind, left |-> CommandsOf(kind), pc |-> "scheduled", proc |-> "none"]

\* the append that drops the new line when the list is full
LogAppendDropsNewest(logs, msg) ==
    IF Len(logs) + 1 > MaxLogLines THEN logs ELSE Append(logs, msg)

\* process_logs.append(msg); if len(process_logs) > 1000: process_logs.pop(0)
LogAppend(logs, msg) ==
    IF Len(logs) + 1 > MaxLogLines THEN Tail(Append(logs, msg)) ELSE Append(logs, msg)

InitApp ==
    /\ is_running = FALSE /\ process_logs = <<>> /\ tasks = <<>>
    /\ arrived = 0 /\ since_clear = 0 /\ response = NoResponse
    /\ LcsIdle /\ EditIdle /\ GradeIdle /\ RecIdle /\ RunIdle /\ SumIdle

otherVars == <<lcsVars, editVars, gradeVars, recVars, runVars, sumVars>>

\* POST /api/run_test
RunTest ==
    /\ Len(tasks) < MaxTasks
    /\ process_logs' = <<>>
    /\ since_clear' = 0
    /\ tasks' = Append(tasks, NewTask("run_test"))
    /\ UNCHANGED <<is_running, arrived, response, otherVars>>

\* POST /api/analyze
Analyze ==
    /\ Len(tasks) < MaxTasks
    /\ tasks' = Append(tasks, NewTask("analyze"))
    /\ UNCHANGED <<is_running, process_logs, arrived, since_clear, response, otherVars>>

\* the background task starts: run_command up to its first await
RunCommandStart(t) ==
    /\ tasks[t].pc = "scheduled"
    /\ is_running' = TRUE
    /\ tasks' = [tasks EXCEPT ![t].pc = "launching"]
    /\ UNCHANGED <<process_logs, arrived, since_clear, response, otherVars>>

\* create_subprocess_exec returns a process
LaunchReturns(t) ==
    /\ tasks[t].pc = "launching"
    /\ tasks' = [tasks EXCEPT ![t].pc = "reading", ![t].proc = "running"]
    /\ UNCHANGED <<is_running, process_logs, arrived, since_clear, response, otherVars>>

\* create_subprocess_exec raises: the exception leaves run_command and the task
LaunchRaises(t) ==
    /\ tasks[t].pc = "launching"
    /\ tasks' = [tasks EXCEPT ![t].pc = "raised"]
    /\ UNCHANGED <<is_running, process_logs, arrived, since_clear, response, otherVars>>

\* readline returns a line
ReadLine(t) ==
    /\ tasks[t].pc = "reading"
    /\ arrived < MaxLines
    /\ arrived' = arrived + 1
    /\ since_clear' = since_clear + 1
    /\ process_logs' = LogAppend(process_logs, arrived + 1)
    /\ UNCHANGED <<is_running, tasks, response, otherVars>>

\* the subprocess exits
ProcessExits(t) ==
    /\ tasks[t].proc = "running"
    /\ tasks' = [tasks EXCEPT ![t].proc = "exited"]
    /\ UNCHANGED <<is_running, process_logs, arrived, since_clear, response, otherVars>>

\* readline returns b'': the loop breaks
ReadEOF(t) ==
    /\ tasks[t].pc = "reading"
    /\ tasks[t].proc = "exited"
    /\ tasks' = [tasks EXCEPT ![t].pc = "waiting"]
    /\ UNCHANGED <<is_running, process_logs, arrived, since_clear, response, otherVars>>

\* process.wait() returns; run_command sets is_running = False and returns.
\* In the analyze task the next run_command then runs up to its first await
\* in the same step and sets is_running = True again.
WaitReturns(t) ==
    /\ tasks[t].pc = "waiting"
    /\ tasks[t].proc = "exited"
    /\ IF tasks[t].left > 1
       THEN /\ is_running' = TRUE
            /\ tasks' = [tasks EXCEPT ![t].left = @ - 1, ![t].pc = "launching",
                                       ![t].proc = "none"]
       ELSE /\ is_running' = FALSE
            /\ tasks' = [tasks EXCEPT ![t].left = 0, ![t].pc = "done",
                                       ![t].proc = "none"]
    /\ UNCHANGED <<process_logs, arrived, since_clear, response, otherVars>>

\* GET /api/logs
GetLogs ==
    /\ response' = [logs |-> process_logs, is_running |-> is_running]
    /\ UNCHANGED <<is_running, process_logs, tasks, arrived, since_clear, otherVars>>

NextApp ==
    \/ RunTest
    \/ Analyze
    \/ GetLogs
    \/ \E t \in DOMAIN tasks :
          \/ RunCommandStart(t)
          \/ LaunchReturns(t)
          \/ LaunchRaises(t)
          \/ ReadLine(t)
          \/ ProcessExits(t)
          \/ ReadEOF(t)
          \/ WaitReturns(t)

SpecApp == InitApp /\ [][NextApp]_vars

\* a command of task t is executing: run_command has been entered and has
\* neither returned nor raised
Executing(t) == tasks[t].pc \in {"launching", "reading", "waiting"}

\* C29: is_running is true whenever a subprocess started by run_command has
\* not exited, and false once no command is executing, a failed launch
\* included.
C29_FlagTracksCommands ==
    /\ (\E t \in DOMAIN tasks : tasks[t].proc = "running") => is_running
    /\ (\A t \in DOMAIN tasks : ~Executing(t)) => ~is_running

\* C30: process_logs never holds more than the cap, and it holds exactly the
\* most recent lines that arrived since the list was last cleared, oldest
\* first; the reply of /api/logs is such a list as well.
C30_LogsAreRecentLines ==
    /\ Len(process_logs) = Min(MaxLogLines, since_clear)
    /\ \A k \in 1..Len(process_logs) :
          process_logs[k] = arrived - Len(process_logs) + k
    /\ Len(response.logs) <= MaxLogLines
    /\ \A k \in 1..(Len(response.logs) - 1) :
          response.logs[k + 1] = response.logs[k] + 1

\* C30 witness: two commands are reading at once, more lines than the cap
\* have arrived, and the list holds the last ones.
C30_Witness ==
    /\ Cardinality({t \in DOMAIN tasks : tasks[t].pc = "reading"}) = 2
    /\ arrived = MaxLogLines + 1
    /\ since_clear = MaxLogLines + 1
    /\ Len(process_logs) = MaxLogLines
    /\ process_logs[1] = 2
    /\ response.logs = process_logs

(***************************************************************************)
(* Aggregation over a batch.                                               *)
(***************************************************************************)
\* the rows of the table in the order given by the permutation p
Reordered(p) == [k \in DOMAIN records |-> records[p[k]]]

\* C22: processing the records of a batch in any order gives the same four
\* frequency tables and the same four totals.
C22_OrderIndependent ==
    phase = "done" =>
        \A p \in Permutations(DOMAIN records) :
            LET mis == analyze_misorder_errors(Reordered(p))
                hal == analyze_hallucination_errors(Reordered(p))
                mss == analyze_missing_errors(Reordered(p))
                pos == analyze_table(Reordered(p))
            IN  /\ misorder_frequency = mis.frequency /\ total_misorder = mis.total
                /\ hallucination_frequency = hal.frequency /\ total_halluc = hal.total
                /\ missing_frequency = mss.frequency /\ total_missing = mss.total
                /\ position_frequency = pos.frequency /\ total_records = pos.total

\* C22 witness: two different records were both counted, and reference key
\* 2 was credited by both.
C22_Witness ==
    /\ phase = "done" /\ Len(records) = 2
    /\ records[1] # records[2]
    /\ total_records = 2 /\ total_missing = 2
    /\ 2 \in DOMAIN position_frequency /\ position_frequency[2] = 2
    /\ Cardinality(DOMAIN position_frequency) = 4

====
